---- MODULE Spec2Model ----
(***************************************************************************)
(* SKProfileCreator.js: the lifecycle controller that installs a local     *)
(* IPFS binary, initialises a repository, keys it, starts the daemon,      *)
(* stages and adds a profile tree, reconciles the recursive pins,          *)
(* publishes the IPNS record, exports the key and stops the daemon.        *)
(*                                                                         *)
(* The node (repository, keystore, pin set, naming records) and the local  *)
(* files are the environment; every controller process is a sequential     *)
(* program whose position is pc[i].  Command output is text: a sequence of *)
(* atoms, where " " and "\n" are the separators the code splits on and     *)
(* "/" and ":" are kept as atoms of their own.                             *)
(***************************************************************************)
EXTENDS Integers, Sequences, FiniteSets, TLC

VARIABLES
  binary,        \* ipfsCmd exists and answers --version
  config,        \* <repoRoot>/config exists
  gateway, api,  \* Addresses.Gateway / Addresses.API of the repository
  keys,          \* keystore: set of [name, id]
  keyFile,       \* contents of profile.key: "none" or the exported identity
  pins,          \* recursive pin set of the repository
  record,        \* naming records: identity -> content root
  staged,        \* <<>> or <<tree>>: the documents under <root>/profile
  initCount,     \* number of `ipfs init` commands that took effect
  genCount,      \* number of identities generated so far
  restarts,      \* number of times the script was started again
  pc,            \* position of each controller process
  hash,          \* main: const hash
  existingPins,  \* main: the part of existingPins the for loop has not visited
  publishOut,    \* main: const publishOut
  ipns,          \* main: const ipns
  exitCode,      \* -1 while running, then the process exit code
  daemon,        \* "none", "running", "killed": the child spawned at line 153
  warned,        \* a console.warn of lines 195 / 212 was written
  log,           \* the commands this run issued, in order: [cmd, arg, ok]
  lastClean      \* history: the identity exported by the last run that ended
                 \* cleanly, and genCount at that moment

envVars  == <<binary, config, gateway, api, keys, keyFile, pins, record,
              staged, initCount, genCount, restarts>>
procVars == <<pc, hash, existingPins, publishOut, ipns, exitCode, daemon,
              warned, log>>
vars     == <<envVars, procVars, lastClean>>

----------------------------------------------------------------------------
(* Bounds and value sets *)

MaxRestarts == 1
MaxTime     == 1

Procs      == {1, 2}
Names      == {"Alice"}
Bios       == {"hi"}
Posts      == {"hello", "bye"}
StaleRoots == {"QmOld1", "QmOld2"}
\* The instants new Date() may report
Timestamps == 1..MaxTime
InitSeeds  == {{}, {"QmDocs"}}

GatewayAddr_ApiPort == "/ip4/127.0.0.1/tcp/5001"

GatewayAddr == "/ip4/127.0.0.1/tcp/8080"
ApiAddr     == "/ip4/127.0.0.1/tcp/5001"
OtherGateway == "/ip4/0.0.0.0/tcp/9090"
OtherApi     == "/ip4/0.0.0.0/tcp/5002"
DefaultGateway == "/ip4/127.0.0.1/tcp/8080"
DefaultApi     == "/ip4/127.0.0.1/tcp/5001"

----------------------------------------------------------------------------
(* Text *)

WhiteSpace == {" ", "\n"}

RECURSIVE Split(_, _)
Split(s, sep) ==
  IF s = <<>> THEN << <<>> >>
  ELSE LET rest == Split(Tail(s), sep) IN
       IF Head(s) = sep
         THEN << <<>> >> \o rest
         ELSE << <<Head(s)>> \o Head(rest) >> \o Tail(rest)

RECURSIVE TrimLeft(_)
TrimLeft(s) ==
  IF s # <<>> /\ Head(s) \in WhiteSpace THEN TrimLeft(Tail(s)) ELSE s

RECURSIVE TrimRight(_)
TrimRight(s) ==
  IF s # <<>> /\ s[Len(s)] \in WhiteSpace
    THEN TrimRight(SubSeq(s, 1, Len(s) - 1)) ELSE s

Trim(s) == TrimRight(TrimLeft(s))

\* run(): execSync(...).toString().trim()
RunOutput(stdout) == Trim(stdout)

\* .replace(/\/$/, "")
StripTrailingSlash(s) ==
  IF s # <<>> /\ s[Len(s)] = "/" THEN SubSeq(s, 1, Len(s) - 1) ELSE s

RECURSIVE MapFirstToken(_)
MapFirstToken(lines) ==
  IF lines = <<>> THEN <<>>
  ELSE <<Split(Head(lines), " ")[1]>> \o MapFirstToken(Tail(lines))

----------------------------------------------------------------------------
(* The node's command output, as the controller receives it on stdout *)

\* `ipfs add -Q`: the root content identifier of the tree, then a newline.
\* Identical trees have identical identifiers.
Cid(tree) ==
  "bafy-" \o tree.profile.name \o "-" \o tree.profile.bio \o "-"
          \o tree.post0.content \o "-" \o ToString(tree.post0.timestamp)

AddText(tree) == <<Cid(tree), "\n">>

\* `ipfs pin ls --type=recursive`: one line "<cid> recursive" per pin.
RECURSIVE PinLsText(_)
PinLsText(order) ==
  IF order = <<>> THEN <<>>
  ELSE <<Head(order), " ", "recursive", "\n">> \o PinLsText(Tail(order))

\* The orders in which the node may list a pin set.
Orders(S) ==
  {f \in [1..Cardinality(S) -> S] :
     \A a, b \in 1..Cardinality(S) : a # b => f[a] # f[b]}

\* `ipfs key list`: one key name per line, "self" first.
RECURSIVE NameLines(_)
NameLines(names) ==
  IF names = {} THEN <<>>
  ELSE LET n == CHOOSE x \in names : TRUE
       IN <<n, "\n">> \o NameLines(names \ {n})

KeyListText(ks) ==
  LET names == {k.name : k \in ks}
  IN (IF "self" \in names THEN <<"self", "\n">> ELSE <<>>)
       \o NameLines(names \ {"self"})

\* `ipfs name publish`: the confirmation line.  "kubo" is the text the node
\* prints, "named" the text of the form "Published name: /ipns/<id>/".
PublishFormats == {"kubo", "named"}

PublishText(fmt, id, root) ==
  IF fmt = "kubo"
    THEN <<"Published", " ", "to", " ", id, ":", " ", "/", "ipfs", "/", root, "\n">>
    ELSE <<"Published", " ", "name:", " ", "/", "ipns", "/", id, "/", "\n">>

----------------------------------------------------------------------------
(* The controller's own computations *)

\* run(), lines 43-46: what a failed command does to the caller.
\*   "exit"   process.exit(1)
\*   "throw"  the error reaches the caller's try/catch
\*   "return" run returns normally with no output
RunOnError_Throw == "throw"

RunOnError_Return == "return"

RunOnError == "exit"

\* main, lines 145-147 and 219: the rejection of downloadAndInstallIPFS is
\* awaited without a handler and main() has none either, so the process
\* ends with a non-zero code; nothing is tried again.
OnInstallError_Ignore == "init"

OnInstallError == "exit"

\* initIPFSRepo, line 119
NeedsInit_Always(cfg) == TRUE

NeedsInit(cfg) == ~cfg

\* importUserKey, line 128: keyList.split("\n").includes("profile")
KeyExists_AnyKey(keyList) ==
  LET lines == Split(keyList, "\n")
  IN \E n \in 1..Len(lines) : lines[n] # <<>>

KeyExists(keyList) ==
  LET lines == Split(keyList, "\n")
  IN \E n \in 1..Len(lines) : lines[n] = <<"profile">>

\* importUserKey, lines 130-141: which key command is issued
KeyingChoice_GenFirst(keyExists, fileExists) ==
  IF keyExists THEN "none" ELSE "gen"

KeyingChoice(keyExists, fileExists) ==
  IF keyExists THEN "none"
  ELSE IF fileExists THEN "import" ELSE "gen"

\* main, lines 186-189: the roots to unpin
ExistingPins_NoFilter(out, h) ==
  SelectSeq(MapFirstToken(Split(out, "\n")), LAMBDA cid : cid # <<>>)

ExistingPins_FirstOnly(out, h) ==
  LET all == SelectSeq(MapFirstToken(Split(out, "\n")),
                       LAMBDA cid : cid # <<>> /\ cid # h)
  IN IF all = <<>> THEN <<>> ELSE <<Head(all)>>

ExistingPins(out, h) ==
  SelectSeq(MapFirstToken(Split(out, "\n")),
            LAMBDA cid : cid # <<>> /\ cid # h)

\* main, line 199: publishOut.split(" ")[2].trim().replace(/\/$/, "")
\* (<<"undefined">> stands for the TypeError of indexing past the tokens)
ParseIpns(out) ==
  LET parts == Split(out, " ")
  IN IF Len(parts) < 3 THEN <<"undefined">>
     ELSE StripTrailingSlash(Trim(parts[3]))

\* main, lines 169-180: the three documents
StagedTree_PostIntoBio(name, bio, post, timestamp) ==
  [profile |-> [name |-> name, bio |-> post, created |-> timestamp],
   post0   |-> [timestamp |-> timestamp, content |-> post],
   index   |-> [posts |-> <<"/posts/post0.json">>]]

StagedTree(name, bio, post, timestamp) ==
  [profile |-> [name |-> name, bio |-> bio, created |-> timestamp],
   post0   |-> [timestamp |-> timestamp, content |-> post],
   index   |-> [posts |-> <<"/posts/post0.json">>]]

\* The for loop of lines 190-193 is entered only when something is left.
AfterPins_Relist(list) == IF list = <<>> THEN "publish" ELSE "pinls"

AfterPins(list) == IF list = <<>> THEN "publish" ELSE "pinrm"

\* The argument of a command, as the node reads it: a single word or nothing.
Word(tok) == IF Len(tok) = 1 THEN tok[1] ELSE ""

ProfileIds == {k.id : k \in {x \in keys : x.name = "profile"}}

----------------------------------------------------------------------------
(* Initial states *)

NoRecords == [x \in {} |-> ""]

Fresh(i) ==
  /\ hash' = [hash EXCEPT ![i] = <<>>]
  /\ existingPins' = [existingPins EXCEPT ![i] = <<>>]
  /\ publishOut' = [publishOut EXCEPT ![i] = <<>>]
  /\ ipns' = [ipns EXCEPT ![i] = <<>>]
  /\ exitCode' = [exitCode EXCEPT ![i] = -1]
  /\ daemon' = [daemon EXCEPT ![i] = "none"]
  /\ warned' = [warned EXCEPT ![i] = FALSE]
  /\ log' = [log EXCEPT ![i] = <<>>]

\* The machine before the script is started: any mix of an installed binary,
\* an initialised repository (with its keys, addresses and pins) and an
\* export file left by earlier use.
InitEnv ==
  /\ binary \in BOOLEAN
  /\ config \in BOOLEAN
  /\ keyFile \in {"none", "idOld"}
  /\ IF config
       THEN /\ \E a \in {<<GatewayAddr, ApiAddr>>, <<OtherGateway, OtherApi>>} :
                 gateway = a[1] /\ api = a[2]
            /\ keys \in {{[name |-> "self", id |-> "idSelf"]},
                         {[name |-> "self", id |-> "idSelf"],
                          [name |-> "profile", id |-> "idOld"]}}
            /\ pins \in SUBSET StaleRoots
       ELSE /\ gateway = "unset" /\ api = "unset"
            /\ keys = {}
            /\ pins = {}
  /\ record = NoRecords
  /\ staged = <<>>
  /\ initCount = 0
  /\ genCount = 0
  /\ restarts = 0
  /\ lastClean = [id |-> "none", gen |-> 0]

InitProcs(running) ==
  /\ pc = [i \in Procs |-> IF i \in running THEN "start" ELSE "idle"]
  /\ hash = [i \in Procs |-> <<>>]
  /\ existingPins = [i \in Procs |-> <<>>]
  /\ publishOut = [i \in Procs |-> <<>>]
  /\ ipns = [i \in Procs |-> <<>>]
  /\ exitCode = [i \in Procs |-> -1]
  /\ daemon = [i \in Procs |-> "none"]
  /\ warned = [i \in Procs |-> FALSE]
  /\ log = [i \in Procs |-> <<>>]

\* One controller at a time on the repository
Init == InitEnv /\ InitProcs({1})

\* Two controllers started on the same repository path, on a machine with
\* nothing installed or with everything in place
ConcInit ==
  /\ InitEnv
  /\ binary = config
  /\ config => /\ gateway = GatewayAddr
               /\ pins = {"QmOld1"}
               /\ keyFile = "idOld"
  /\ InitProcs({1, 2})

----------------------------------------------------------------------------
(* Steps of main() *)

Entry(cmd, arg, ok) == [cmd |-> cmd, arg |-> arg, ok |-> ok]

\* Control after a command issued through run(): on success the next
\* statement; on failure what run()'s catch block does.
Land(i, ok, catchPc, nextPc, entry) ==
  LET target == IF ok THEN nextPc
                ELSE CASE RunOnError = "exit"   -> "exit"
                       [] RunOnError = "throw"  -> catchPc
                       [] RunOnError = "return" -> nextPc
  IN /\ pc' = [pc EXCEPT ![i] = target]
     /\ exitCode' = [exitCode EXCEPT ![i] = IF target = "exit" THEN 1 ELSE @]
     /\ warned' = [warned EXCEPT ![i] =
                     IF ~ok /\ RunOnError = "throw" /\ catchPc # "exit"
                       THEN TRUE ELSE @]
     /\ log' = [log EXCEPT ![i] = Append(@, entry)]

\* lines 145-147 and checkIPFS
CheckIPFS(i) ==
  /\ pc[i] = "start"
  /\ pc' = [pc EXCEPT ![i] = IF binary THEN "init" ELSE "install"]
  /\ UNCHANGED <<envVars, hash, existingPins, publishOut, ipns, exitCode,
                 daemon, warned, log>>
  /\ UNCHANGED lastClean

\* downloadAndInstallIPFS: the download, the extraction and the search for
\* the binary each may fail; the rejection is not handled by main's caller.
DownloadAndInstallIPFS(i) ==
  /\ pc[i] = "install"
  /\ \E outcome \in {"ok", "download", "archive", "notfound"} :
       /\ binary' = (binary \/ outcome = "ok")
       /\ pc' = [pc EXCEPT ![i] = IF outcome = "ok" THEN "init" ELSE OnInstallError]
       /\ exitCode' = [exitCode EXCEPT ![i] =
                          IF outcome # "ok" /\ OnInstallError = "exit" THEN 1 ELSE @]
       /\ log' = [log EXCEPT ![i] =
                    Append(@, Entry("install", outcome, outcome = "ok"))]
  /\ UNCHANGED <<config, gateway, api, keys, keyFile, pins, record, staged,
                 initCount, genCount, restarts>>
  /\ UNCHANGED <<hash, existingPins, publishOut, ipns, daemon, warned>>
  /\ UNCHANGED lastClean

\* initIPFSRepo, lines 119-121.  `ipfs init` refuses a repository that
\* already has a configuration; on success it writes the default
\* configuration, creates the node's own key and may pin its help documents.
InitIPFSRepo(i) ==
  /\ pc[i] = "init"
  /\ IF NeedsInit(config)
       THEN \E ok \in (IF config THEN {FALSE} ELSE BOOLEAN) :
            \E seed \in InitSeeds :
              /\ Land(i, ok, "exit", "cfgGateway", Entry("init", "", ok))
              /\ IF ok
                   THEN /\ config' = TRUE
                        /\ gateway' = DefaultGateway
                        /\ api' = DefaultApi
                        /\ keys' = {[name |-> "self", id |-> "idSelf"]}
                        /\ pins' = seed
                        /\ initCount' = initCount + 1
                   ELSE UNCHANGED <<config, gateway, api, keys, pins, initCount>>
       ELSE /\ pc' = [pc EXCEPT ![i] = "cfgGateway"]
            /\ UNCHANGED <<config, gateway, api, keys, pins, initCount,
                           exitCode, warned, log>>
  /\ UNCHANGED <<binary, keyFile, record, staged, genCount, restarts>>
  /\ UNCHANGED <<hash, existingPins, publishOut, ipns, daemon>>
  /\ UNCHANGED lastClean

\* initIPFSRepo, line 122
ConfigGateway(i) ==
  /\ pc[i] = "cfgGateway"
  /\ \E ok \in (IF config THEN BOOLEAN ELSE {FALSE}) :
       /\ Land(i, ok, "exit", "cfgApi", Entry("config", "Addresses.Gateway", ok))
       /\ gateway' = IF ok THEN GatewayAddr ELSE gateway
  /\ UNCHANGED <<binary, config, api, keys, keyFile, pins, record, staged,
                 initCount, genCount, restarts>>
  /\ UNCHANGED <<hash, existingPins, publishOut, ipns, daemon>>
  /\ UNCHANGED lastClean

\* initIPFSRepo, line 123
ConfigApi(i) ==
  /\ pc[i] = "cfgApi"
  /\ \E ok \in (IF config THEN BOOLEAN ELSE {FALSE}) :
       /\ Land(i, ok, "exit", "keylist", Entry("config", "Addresses.API", ok))
       /\ api' = IF ok THEN ApiAddr ELSE api
  /\ UNCHANGED <<binary, config, gateway, keys, keyFile, pins, record, staged,
                 initCount, genCount, restarts>>
  /\ UNCHANGED <<hash, existingPins, publishOut, ipns, daemon>>
  /\ UNCHANGED lastClean

\* importUserKey, lines 127-135: list the keys and choose
KeyList(i) ==
  /\ pc[i] = "keylist"
  /\ \E ok \in (IF config THEN BOOLEAN ELSE {FALSE}) :
       LET keyList == RunOutput(KeyListText(keys))
           choice  == KeyingChoice(KeyExists(keyList), keyFile # "none")
           next    == CASE choice = "none"   -> "spawn"
                        [] choice = "import" -> "import"
                        [] choice = "gen"    -> "gen"
       IN Land(i, ok, "exit", next, Entry("key list", "", ok))
  /\ UNCHANGED envVars
  /\ UNCHANGED <<hash, existingPins, publishOut, ipns, daemon>>
  /\ UNCHANGED lastClean

\* importUserKey, line 137.  The node refuses a name it already holds and a
\* file it cannot read.
KeyImport(i) ==
  /\ pc[i] = "import"
  /\ \E ok \in (IF keyFile # "none" /\ ProfileIds = {} THEN BOOLEAN ELSE {FALSE}) :
       /\ Land(i, ok, "exit", "spawn", Entry("key import", "profile", ok))
       /\ keys' = IF ok THEN keys \cup {[name |-> "profile", id |-> keyFile]}
                  ELSE keys
  /\ UNCHANGED <<binary, config, gateway, api, keyFile, pins, record, staged,
                 initCount, genCount, restarts>>
  /\ UNCHANGED <<hash, existingPins, publishOut, ipns, daemon>>
  /\ UNCHANGED lastClean

\* importUserKey, line 140.  A generated key is a new identity.
KeyGen(i) ==
  /\ pc[i] = "gen"
  /\ \E ok \in (IF ProfileIds = {} THEN BOOLEAN ELSE {FALSE}) :
       /\ Land(i, ok, "exit", "spawn", Entry("key gen", "profile", ok))
       /\ keys' = IF ok
                    THEN keys \cup {[name |-> "profile",
                                     id |-> "idGen" \o ToString(genCount + 1)]}
                    ELSE keys
       /\ genCount' = IF ok THEN genCount + 1 ELSE genCount
  /\ UNCHANGED <<binary, config, gateway, api, keyFile, pins, record, staged,
                 initCount, restarts>>
  /\ UNCHANGED <<hash, existingPins, publishOut, ipns, daemon>>
  /\ UNCHANGED lastClean

\* lines 152-159: spawn the daemon and wait the settling delay
SpawnDaemon(i) ==
  /\ pc[i] = "spawn"
  /\ pc' = [pc EXCEPT ![i] = "stage"]
  /\ daemon' = [daemon EXCEPT ![i] = "running"]
  /\ log' = [log EXCEPT ![i] = Append(@, Entry("daemon", "", TRUE))]
  /\ UNCHANGED <<envVars, hash, existingPins, publishOut, ipns, exitCode, warned>>
  /\ UNCHANGED lastClean

\* lines 161-180: the three prompts, the timestamp and the three documents
Stage(i) ==
  /\ pc[i] = "stage"
  /\ \E name \in Names, bio \in Bios, post \in Posts :
     \E t \in Timestamps :
       staged' = <<StagedTree(name, bio, post, t)>>
  /\ pc' = [pc EXCEPT ![i] = "add"]
  /\ UNCHANGED <<binary, config, gateway, api, keys, keyFile, pins, record,
                 initCount, genCount, restarts>>
  /\ UNCHANGED <<hash, existingPins, publishOut, ipns, exitCode, daemon,
                 warned, log>>
  /\ UNCHANGED lastClean

\* line 182: add the staged tree; the node pins the root it returns
Add(i) ==
  /\ pc[i] = "add"
  /\ \E ok \in (IF config /\ staged # <<>> THEN BOOLEAN ELSE {FALSE}) :
       /\ Land(i, ok, "exit", "pinls", Entry("add", "", ok))
       /\ IF ok
            THEN /\ hash' = [hash EXCEPT ![i] = RunOutput(AddText(staged[1]))]
                 /\ pins' = pins \cup {Cid(staged[1])}
            ELSE UNCHANGED <<hash, pins>>
  /\ UNCHANGED <<binary, config, gateway, api, keys, keyFile, record, staged,
                 initCount, genCount, restarts>>
  /\ UNCHANGED <<existingPins, publishOut, ipns, daemon>>
  /\ UNCHANGED lastClean

\* lines 186-189: list the recursive pins and keep the roots to unpin
PinLs(i) ==
  /\ pc[i] = "pinls"
  /\ \E ok \in (IF config THEN BOOLEAN ELSE {FALSE}) :
     \E order \in Orders(pins) :
       LET list == ExistingPins(RunOutput(PinLsText(order)), hash[i])
       IN /\ Land(i, ok, "publish", IF ok THEN AfterPins(list) ELSE "publish",
                  Entry("pin ls", "", ok))
          /\ existingPins' = [existingPins EXCEPT ![i] = IF ok THEN list ELSE @]
  /\ UNCHANGED envVars
  /\ UNCHANGED <<hash, publishOut, ipns, daemon>>
  /\ UNCHANGED lastClean

\* lines 190-193: one turn of the loop.  The node refuses to unpin a root
\* that is not pinned.
PinRm(i) ==
  /\ pc[i] = "pinrm"
  /\ existingPins[i] # <<>>
  /\ LET cid == Word(Head(existingPins[i]))
         rest == Tail(existingPins[i])
     IN \E ok \in (IF cid \in pins THEN BOOLEAN ELSE {FALSE}) :
          /\ Land(i, ok, "publish", AfterPins(rest), Entry("pin rm", cid, ok))
          /\ pins' = IF ok THEN pins \ {cid} ELSE pins
          /\ existingPins' = [existingPins EXCEPT ![i] =
                                IF ok \/ RunOnError = "return" THEN rest ELSE @]
  /\ UNCHANGED <<binary, config, gateway, api, keys, keyFile, record, staged,
                 initCount, genCount, restarts>>
  /\ UNCHANGED <<hash, publishOut, ipns, daemon>>
  /\ UNCHANGED lastClean

\* lines 198-199: publish the record under the key named "profile" and
\* parse the confirmation
Publish(i) ==
  /\ pc[i] = "publish"
  /\ LET root == Word(hash[i])
     IN \E ok \in (IF ProfileIds # {} /\ root # "" THEN BOOLEAN ELSE {FALSE}) :
        \E fmt \in PublishFormats :
        \E id \in (IF ok THEN ProfileIds ELSE {""}) :
          LET out == RunOutput(PublishText(fmt, id, root))
          IN /\ Land(i, ok, "exit",
                     IF ok /\ ParseIpns(out) = <<"undefined">>
                       THEN "exit" ELSE "await",
                     Entry("name publish", root, ok))
             /\ IF ok
                  THEN /\ record' = (id :> root) @@ record
                       /\ publishOut' = [publishOut EXCEPT ![i] = out]
                       /\ ipns' = [ipns EXCEPT ![i] = ParseIpns(out)]
                  ELSE UNCHANGED <<record, publishOut, ipns>>
  /\ UNCHANGED <<binary, config, gateway, api, keys, keyFile, pins, staged,
                 initCount, genCount, restarts>>
  /\ UNCHANGED <<hash, existingPins, daemon>>
  /\ UNCHANGED lastClean

\* line 206: the operator presses Enter
AwaitStop(i) ==
  /\ pc[i] = "await"
  /\ pc' = [pc EXCEPT ![i] = "export"]
  /\ UNCHANGED <<envVars, hash, existingPins, publishOut, ipns, exitCode,
                 daemon, warned, log>>
  /\ UNCHANGED lastClean

\* lines 208-213: export the key to profile.key
KeyExport(i) ==
  /\ pc[i] = "export"
  /\ \E ok \in (IF ProfileIds # {} THEN BOOLEAN ELSE {FALSE}) :
     \E id \in (IF ok THEN ProfileIds ELSE {""}) :
       /\ Land(i, ok, "kill", "kill", Entry("key export", "profile", ok))
       /\ keyFile' = IF ok THEN id ELSE keyFile
  /\ UNCHANGED <<binary, config, gateway, api, keys, pins, record, staged,
                 initCount, genCount, restarts>>
  /\ UNCHANGED <<hash, existingPins, publishOut, ipns, daemon>>
  /\ UNCHANGED lastClean

\* lines 215-217: stop the daemon; main returns and the process ends
KillDaemon(i) ==
  /\ pc[i] = "kill"
  /\ pc' = [pc EXCEPT ![i] = "done"]
  /\ daemon' = [daemon EXCEPT ![i] = "killed"]
  /\ exitCode' = [exitCode EXCEPT ![i] = 0]
  /\ log' = [log EXCEPT ![i] = Append(@, Entry("kill", "", TRUE))]
  /\ UNCHANGED <<envVars, hash, existingPins, publishOut, ipns, warned>>
  /\ lastClean' = IF \E n \in 1..Len(log[i]) :
                         log[i][n].cmd = "key export" /\ log[i][n].ok
                    THEN [id |-> keyFile, gen |-> genCount]
                    ELSE lastClean

\* The operator starts the script again after it ended
Restart(i) ==
  /\ pc[i] \in {"done", "exit"}
  /\ restarts < MaxRestarts
  /\ restarts' = restarts + 1
  /\ pc' = [pc EXCEPT ![i] = "start"]
  /\ Fresh(i)
  /\ UNCHANGED <<binary, config, gateway, api, keys, keyFile, pins, record,
                 staged, initCount, genCount>>
  /\ UNCHANGED lastClean

\* Between runs the operator may remove the key named "profile" from the
\* keystore, and may delete the export file.
Stopped == \A i \in Procs : pc[i] \in {"idle", "done", "exit"}

LoseKey ==
  /\ Stopped
  /\ ProfileIds # {}
  /\ keys' = {k \in keys : k.name # "profile"}
  /\ UNCHANGED <<binary, config, gateway, api, keyFile, pins, record, staged,
                 initCount, genCount, restarts>>
  /\ UNCHANGED <<procVars, lastClean>>

LoseKeyFile ==
  /\ Stopped
  /\ keyFile # "none"
  /\ keyFile' = "none"
  /\ UNCHANGED <<binary, config, gateway, api, keys, pins, record, staged,
                 initCount, genCount, restarts>>
  /\ UNCHANGED <<procVars, lastClean>>

Step(i) ==
  \/ CheckIPFS(i)
  \/ DownloadAndInstallIPFS(i)
  \/ InitIPFSRepo(i)
  \/ ConfigGateway(i)
  \/ ConfigApi(i)
  \/ KeyList(i)
  \/ KeyImport(i)
  \/ KeyGen(i)
  \/ SpawnDaemon(i)
  \/ Stage(i)
  \/ Add(i)
  \/ PinLs(i)
  \/ PinRm(i)
  \/ Publish(i)
  \/ AwaitStop(i)
  \/ KeyExport(i)
  \/ KillDaemon(i)

\* Runs of the script one after another
Next == \E i \in Procs : Step(i) \/ Restart(i)

\* One run of each of the two controllers, interleaved
ConcNext == \E i \in Procs : Step(i)

Spec == Init /\ [][Next]_vars

\* main() runs to its end: no statement waits on anything but the commands
\* and the operator, who answers.
LiveSpec == Init /\ [][Next]_vars /\ WF_vars(Next)

\* Runs one after another, with the operator's removals in between
ChurnNext == Next \/ LoseKey \/ LoseKeyFile

ChurnSpec == Init /\ [][ChurnNext]_vars

ConcSpec == ConcInit /\ [][ConcNext]_vars

----------------------------------------------------------------------------
(* Vocabulary of the properties *)

Entries(i) == {log[i][n] : n \in 1..Len(log[i])}

Issued(i, cmd) == \E e \in Entries(i) : e.cmd = cmd

Succeeded(i, cmd) == \E e \in Entries(i) : e.cmd = cmd /\ e.ok

Failed(i, cmd) == \E e \in Entries(i) : e.cmd = cmd /\ ~e.ok

\* The step being taken appends command cmd to the log of process i
Issues(i, cmd) ==
  /\ Len(log'[i]) = Len(log[i]) + 1
  /\ log'[i][Len(log'[i])].cmd = cmd

\* The pin listing and every pin removal of this run succeeded and the loop
\* has nothing left to visit
Reconciled(i) ==
  /\ Succeeded(i, "pin ls")
  /\ ~Failed(i, "pin rm")
  /\ existingPins[i] = <<>>

\* The roots this run removed
Removed(i) == {e.arg : e \in {x \in Entries(i) : x.cmd = "pin rm" /\ x.ok}}

----------------------------------------------------------------------------
(* C1: pin reconciliation.  Whatever recursive pins the repository held     *)
(* before (none, some, the new root among them), when the pin listing and   *)
(* every pin removal of the run succeeded, the recursive pin set right      *)
(* after the reconciliation step is exactly {R}, R the root returned by     *)
(* this run's add.                                                          *)
C1_PinSetIsRoot ==
  \A i \in Procs :
    (pc[i] = "publish" /\ Reconciled(i)) => pins = {Word(hash[i])}

\* reconciliation finished after removing two other roots
C1_Witness ==
  /\ pc[1] = "publish" /\ Reconciled(1)
  /\ Cardinality(Removed(1)) >= 2
  /\ pins = {Word(hash[1])}

(* C2: pin cleanup is non-fatal.  When the pin listing or a pin removal     *)
(* fails, the failure is caught, a warning is written and the process does  *)
(* not terminate (it goes on to the name publish command).                  *)
C2_PinCleanupNonFatal ==
  \A i \in Procs :
    (Failed(i, "pin ls") \/ Failed(i, "pin rm")) =>
      /\ warned[i]
      /\ exitCode[i] # 1
      /\ pc[i] \in {"publish", "await", "export", "kill", "done"}
           \/ Failed(i, "name publish")

(* C3: key export is non-fatal.  When the key export command fails, the     *)
(* failure is caught and logged as a warning and shutdown still proceeds:   *)
(* the daemon is terminated and the run ends in DAEMON_STOPPED.             *)
C3_KeyExportNonFatal ==
  \A i \in Procs :
    Failed(i, "key export") =>
      /\ warned[i]
      /\ exitCode[i] # 1
      /\ pc[i] \in {"kill", "done"}

(* C4: key stability.  A key import is issued only when no key named        *)
(* "profile" is in the keystore and the export file exists; a key           *)
(* generation only when no such key is there and no export file exists;     *)
(* and after a successful key listing the controller goes on to exactly     *)
(* the command of its case: none when the key is there, import when it is   *)
(* not and the file exists, generation otherwise.                           *)
C4_KeyStability ==
  [][\A i \in Procs :
       /\ Issues(i, "key import") => (ProfileIds = {} /\ keyFile # "none")
       /\ Issues(i, "key gen") => (ProfileIds = {} /\ keyFile = "none")
       /\ (Issues(i, "key list") /\ pc'[i] # "exit") =>
            pc'[i] = IF ProfileIds # {} THEN "spawn"
                     ELSE IF keyFile # "none" THEN "import" ELSE "gen"]_vars

\* the import case has happened: the key came from the export file
C4_Witness ==
  /\ Succeeded(1, "key import") /\ ~Issued(1, "key gen")
  /\ ProfileIds = {keyFile}

(* C5: when the add command fails, the process exits with a non-zero code   *)
(* and the run issues no pin listing, no pin removal and no name publish.   *)
C5_AddFailureIsFatal ==
  \A i \in Procs :
    Failed(i, "add") =>
      /\ pc[i] = "exit" /\ exitCode[i] = 1
      /\ ~Issued(i, "pin ls") /\ ~Issued(i, "pin rm")
      /\ ~Issued(i, "name publish")

C5_Witness == Failed(1, "add") /\ daemon[1] = "running"

(* C6: end to end.  A run started on a machine with no binary, no           *)
(* repository, no key named "profile" and no export file, in which no       *)
(* command fails and the operator answers, reaches the end of main with:    *)
(* the binary installed, the repository initialised, the key generated and  *)
(* not imported, the recursive pin set {R} for the root R it added, the     *)
(* naming record of the identity bound to R, the key exported to the export *)
(* file, the daemon stopped and exit code 0.                                *)
FreshStart ==
  /\ restarts = 0 /\ pc[1] = "start"
  /\ ~binary /\ ~config /\ ProfileIds = {} /\ keyFile = "none"

SomeCommandFailed == \E e \in Entries(1) : ~e.ok

GoodTerminal ==
  /\ pc[1] = "done" /\ exitCode[1] = 0
  /\ binary /\ config /\ initCount = 1
  /\ Succeeded(1, "key gen") /\ ~Issued(1, "key import")
  /\ Succeeded(1, "add")
  /\ pins = {Word(hash[1])}
  /\ \E id \in ProfileIds :
       /\ id \in DOMAIN record /\ record[id] = Word(hash[1])
       /\ keyFile = id
  /\ daemon[1] = "killed"

C6_EndToEnd == FreshStart ~> (SomeCommandFailed \/ GoodTerminal)

C6_Witness ==
  /\ GoodTerminal /\ restarts = 0
  /\ Succeeded(1, "install") /\ Succeeded(1, "init")

(* C7: at most one content root is pinned.  As stated: in every reachable   *)
(* state, over any sequence of runs, the recursive pin set holds at most    *)
(* one of the roots the controller adds.                                    *)
ContentRoots ==
  {Cid(StagedTree(n, b, p, t)) :
     n \in Names, b \in Bios, p \in Posts, t \in Timestamps}

C7_AtMostOneRootAlways == Cardinality(pins \cap ContentRoots) <= 1

(* C7 as amended: once a run's pin listing and all its pin removals have    *)
(* succeeded, and for the rest of that run, the recursive pin set holds at  *)
(* most one root (between the add and the end of the reconciliation, and    *)
(* after a run that stopped in between, it may hold more).                  *)
C7_AtMostOneRootOnceReconciled ==
  \A i \in Procs : Reconciled(i) => Cardinality(pins) <= 1

\* a second run, with a new root, has finished and left one root pinned
C7_Witness ==
  /\ restarts = 1 /\ pc[1] = "done" /\ Reconciled(1)
  /\ Removed(1) \cap ContentRoots # {}
  /\ Cardinality(pins) = 1

(* C8: two controllers on one repository path.  Nothing orders one          *)
(* controller's listing and removals against the other's add: the root a    *)
(* controller added is missing from the pin set exactly through a removal   *)
(* issued by the other controller (never by its own), and both controllers  *)
(* can run to a clean end leaving the root of the naming record unpinned.   *)
C8_UnpinnedOnlyByTheOther ==
  \A i \in Procs :
    (hash[i] # <<>> /\ Word(hash[i]) \notin pins) =>
      /\ Word(hash[i]) \notin Removed(i)
      /\ \E j \in Procs \ {i} : Word(hash[i]) \in Removed(j)

\* both runs ended with exit code 0; the published root is not pinned
C8_Witness ==
  /\ \A i \in Procs : pc[i] = "done" /\ exitCode[i] = 0
  /\ hash[1] # hash[2]
  /\ \E id \in DOMAIN record : record[id] \notin pins
  /\ pins = {}

(* C9: repository initialisation is idempotent.  The init command is        *)
(* issued only when the configuration marker is absent; over any number of  *)
(* runs at most one init takes effect; and the initialisation step on a     *)
(* repository that has its marker issues nothing and leaves the marker, the *)
(* keystore and the pin set as they were.                                   *)
C9_InitIdempotent ==
  [][/\ initCount' <= 1
     /\ \A i \in Procs :
          /\ Issues(i, "init") => ~config
          /\ (pc[i] = "init" /\ config) =>
               /\ log'[i] = log[i]
               /\ pc'[i] = "cfgGateway"
               /\ UNCHANGED <<config, gateway, api, keys, pins, initCount>>]_vars

\* the second run passed the initialisation step of a repository that the
\* first run initialised
C9_Witness ==
  /\ restarts = 1 /\ pc[1] = "cfgGateway"
  /\ initCount = 1 /\ ~Issued(1, "init")

(* C10: publish output parsing.  Given the confirmation text                *)
(* "Published name: /ipns/<id>/" the extracted identifier is <id>: the      *)
(* third token with the trailing slash stripped and the leading path        *)
(* segments discarded.                                                      *)
C10_PublishParsing ==
  \A i \in Procs : \A id \in ProfileIds :
    publishOut[i] = <<"Published", " ", "name:", " ", "/", "ipns", "/", id, "/">>
      => ipns[i] = <<id>>

(* C11: whenever the keying step of a run has completed without a fatal     *)
(* exit, the keystore holds exactly one key named "profile", whatever the   *)
(* keystore and the export file held before.                                *)
ProfileKeys == {k \in keys : k.name = "profile"}

KeyingDone(i) ==
  /\ Succeeded(i, "key list")
  /\ pc[i] \notin {"import", "gen"}
  /\ ~Failed(i, "key import") /\ ~Failed(i, "key gen")

C11_OneProfileKey ==
  \A i \in Procs : KeyingDone(i) => Cardinality(ProfileKeys) = 1

\* keying just completed by generating the key
C11_Witness ==
  /\ pc[1] = "spawn" /\ Succeeded(1, "key gen")
  /\ Cardinality(ProfileKeys) = 1

(* C12: when the binary is absent and its installation fails (download,     *)
(* archive, binary not found in the archive), the process ends with a       *)
(* non-zero exit code, the installation is not tried again and the run      *)
(* issues no node command.                                                  *)
C12_InstallFailureIsFatal ==
  \A i \in Procs :
    Failed(i, "install") =>
      /\ pc[i] = "exit" /\ exitCode[i] = 1
      /\ Len(log[i]) = 1
      /\ daemon[i] = "none"

\* the archive held no binary
C12_Witness ==
  /\ Failed(1, "install") /\ ~binary
  /\ log[1][1].arg = "notfound"

(* C13: staged tree.  For every operator input (name, bio, post) and every  *)
(* timestamp T the staging step writes profile.json = {name, bio,           *)
(* created: T}, posts/post0.json = {timestamp: T, content: post} and        *)
(* status_index.json = {posts: ["/posts/post0.json"]}, whatever was staged  *)
(* before; it writes nothing else, so the index always lists exactly that   *)
(* one path.                                                                *)
ProfileJson(name, bio, T) == [name |-> name, bio |-> bio, created |-> T]

Post0Json(post, T) == [timestamp |-> T, content |-> post]

StatusIndexJson == [posts |-> <<"/posts/post0.json">>]

Written(tree, name, bio, post, T) ==
  /\ tree.profile = ProfileJson(name, bio, T)
  /\ tree.post0 = Post0Json(post, T)
  /\ tree.index = StatusIndexJson

C13_StagedTree ==
  [][\A i \in Procs :
       pc[i] = "stage" =>
         /\ \A name \in Names, bio \in Bios, post \in Posts, T \in Timestamps :
              ENABLED (/\ Stage(i)
                       /\ Len(staged') = 1
                       /\ Written(staged'[1], name, bio, post, T))
         /\ pc'[i] = "add" =>
              /\ Len(staged') = 1
              /\ \E name \in Names, bio \in Bios, post \in Posts, T \in Timestamps :
                   Written(staged'[1], name, bio, post, T)]_vars

\* a second run has overwritten the documents of the first with another post
C13_Witness ==
  /\ restarts = 1 /\ pc[1] = "add"
  /\ Written(staged[1], "Alice", "hi", "bye", 1)
  /\ "bafy-Alice-hi-hello-1" \in pins

(* C14: stop on the first error in pin removal.  Removals are issued one at *)
(* a time in list order; when one fails, no later removal of that run is    *)
(* attempted, the error is caught by the warning handler around the         *)
(* cleanup and the run is not failed: it continues to publication.          *)
C14_StopOnFirstErrorNotFatal ==
  \A i \in Procs :
    Failed(i, "pin rm") =>
      /\ \A n \in 1..Len(log[i]) :
           (log[i][n].cmd = "pin rm" /\ ~log[i][n].ok) =>
             \A m \in (n + 1)..Len(log[i]) : log[i][m].cmd # "pin rm"
      /\ warned[i]
      /\ exitCode[i] # 1
      /\ pc[i] # "exit" \/ Issued(i, "name publish")

(* C15: ordering within one run.  The steps happen in the order install,    *)
(* init, config, keying, daemon start, staging, add, pin listing, pin       *)
(* removals, name publish, operator acknowledgment, key export, daemon      *)
(* stop: the position only moves forward, every command other than a pin    *)
(* removal is issued at most once and after all commands of earlier steps,  *)
(* name publish comes after add and the pin listing, key export after the   *)
(* acknowledgment, the daemon stop after the key export.                    *)
PcRank(p) ==
  CASE p = "idle" -> 0       [] p = "start" -> 1      [] p = "install" -> 2
    [] p = "init" -> 3       [] p = "cfgGateway" -> 4 [] p = "cfgApi" -> 5
    [] p = "keylist" -> 6    [] p = "import" -> 7     [] p = "gen" -> 7
    [] p = "spawn" -> 8      [] p = "stage" -> 9      [] p = "add" -> 10
    [] p = "pinls" -> 11     [] p = "pinrm" -> 12     [] p = "publish" -> 13
    [] p = "await" -> 14     [] p = "export" -> 15    [] p = "kill" -> 16
    [] p = "done" -> 17      [] p = "exit" -> 17

CmdRank(e) ==
  CASE e.cmd = "install" -> 1
    [] e.cmd = "init" -> 2
    [] e.cmd = "config" -> IF e.arg = "Addresses.Gateway" THEN 3 ELSE 4
    [] e.cmd = "key list" -> 5
    [] e.cmd = "key import" -> 6
    [] e.cmd = "key gen" -> 6
    [] e.cmd = "daemon" -> 7
    [] e.cmd = "add" -> 8
    [] e.cmd = "pin ls" -> 9
    [] e.cmd = "pin rm" -> 10
    [] e.cmd = "name publish" -> 11
    [] e.cmd = "key export" -> 12
    [] e.cmd = "kill" -> 13

C15_Ordering ==
  [][\A i \in Procs :
       /\ pc'[i] # pc[i] =>
            \/ PcRank(pc'[i]) > PcRank(pc[i])
            \/ pc[i] \in {"done", "exit"} /\ pc'[i] = "start"
       /\ Len(log'[i]) = Len(log[i]) + 1 =>
            LET e == log'[i][Len(log'[i])]
            IN \A n \in 1..Len(log[i]) :
                 \/ CmdRank(log[i][n]) < CmdRank(e)
                 \/ log[i][n].cmd = "pin rm" /\ e.cmd = "pin rm"
       /\ Issues(i, "name publish") =>
            Succeeded(i, "add") /\ Issued(i, "pin ls")
       /\ Issues(i, "key export") => pc[i] = "export"
       /\ Issues(i, "kill") => Issued(i, "key export")]_vars

\* a whole run, with an installation and a removal, reached its end
C15_Witness ==
  /\ pc[1] = "done"
  /\ Succeeded(1, "install") /\ Succeeded(1, "init")
  /\ Removed(1) # {}
  /\ Succeeded(1, "kill")

(* C16: identity continuity across runs.  After a run that ended cleanly    *)
(* (key exported), as long as no new key was generated since, the keystore  *)
(* and the export file hold no identity but that run's, and a later run     *)
(* that finds the key in the keystore, or finds it missing and imports the  *)
(* export file, publishes the naming record of that same identity.  A new   *)
(* identity is generated only when the keystore has no key named "profile"  *)
(* and the export file is missing, and it differs from every identity       *)
(* published or exported before.                                            *)
Continuous == lastClean.id # "none" /\ genCount = lastClean.gen

OnlyTheCleanIdentity ==
  Continuous =>
    /\ ProfileIds \subseteq {lastClean.id}
    /\ keyFile \in {"none", lastClean.id}

C16_IdentityContinuity ==
  [][/\ OnlyTheCleanIdentity'
     /\ genCount' > genCount =>
          /\ ProfileIds = {} /\ keyFile = "none"
          /\ \A id \in ProfileIds' :
               id \notin DOMAIN record /\ id # lastClean.id
     /\ \A i \in Procs :
          (Issues(i, "name publish") /\ record' # record /\ lastClean.id # "none") =>
            IF Continuous
              THEN /\ lastClean.id \in DOMAIN record'
                   /\ record'[lastClean.id] = Word(hash[i])
              ELSE /\ lastClean.id \notin ProfileIds
                   /\ lastClean.id \in DOMAIN record =>
                        record'[lastClean.id] = record[lastClean.id]]_vars

\* the key was removed after a clean run; the next run imported the export
\* file and published under the identity of the first
C16_Witness ==
  /\ restarts = 1 /\ lastClean.id # "none"
  /\ Succeeded(1, "key import") /\ Succeeded(1, "name publish")
  /\ lastClean.id \in DOMAIN record
  /\ record[lastClean.id] = Word(hash[1])

(* C17: network configuration convergence.  In every run, whether or not    *)
(* the repository was initialised before and whatever its addresses were,   *)
(* once the repository step is done the gateway address is 127.0.0.1:8080   *)
(* and the API address is 127.0.0.1:5001.                                   *)
RepoStepDone(i) ==
  \E e \in Entries(i) : e.cmd = "config" /\ e.arg = "Addresses.API" /\ e.ok

C17_AddressesConverge ==
  \A i \in Procs :
    RepoStepDone(i) =>
      /\ gateway = "/ip4/127.0.0.1/tcp/8080"
      /\ api = "/ip4/127.0.0.1/tcp/5001"

\* an initialised repository with other addresses: the gateway is already
\* set, the API address is about to be
C17_Witness ==
  /\ pc[1] = "cfgApi" /\ ~Issued(1, "init")
  /\ gateway = "/ip4/127.0.0.1/tcp/8080"
  /\ api = "/ip4/0.0.0.0/tcp/5002"
  /\ ENABLED (ConfigApi(1) /\ RepoStepDone(1)')

----------------------------------------------------------------------------
(* Reconciliation against an arbitrary pin listing *)

MaxLines == 4

\* The lines a listing is made of: a root with its pin mode, a bare root,
\* or an empty line.
ListingLines(root) ==
  {<<root, " ", "recursive">>, <<root>>, <<"QmOld1", " ", "recursive">>,
   <<"QmOld2", " ", "recursive">>, <<>>}

RECURSIVE JoinLines(_)
JoinLines(lines) ==
  IF lines = <<>> THEN <<>>
  ELSE Head(lines) \o <<"\n">> \o JoinLines(Tail(lines))

ListingTexts(root) ==
  {JoinLines(ls) : ls \in UNION {[1..n -> ListingLines(root)] : n \in 0..MaxLines}}

\* The state right after line 182 of a run on an initialised repository
\* that holds the profile key: the tree is staged and added, its root is
\* pinned next to whatever was pinned before.
ListInit ==
  /\ binary = TRUE /\ config = TRUE
  /\ gateway = GatewayAddr /\ api = ApiAddr
  /\ keys = {[name |-> "self", id |-> "idSelf"],
             [name |-> "profile", id |-> "idOld"]}
  /\ keyFile = "idOld"
  /\ \E name \in Names, bio \in Bios, post \in Posts, t \in Timestamps :
       /\ staged = <<StagedTree(name, bio, post, t)>>
       /\ hash = [i \in Procs |-> IF i = 1 THEN RunOutput(AddText(staged[1]))
                                           ELSE <<>>]
       /\ \E old \in SUBSET StaleRoots : pins = old \cup {Cid(staged[1])}
  /\ record = NoRecords
  /\ initCount = 0 /\ genCount = 0 /\ restarts = 0
  /\ lastClean = [id |-> "none", gen |-> 0]
  /\ pc = [i \in Procs |-> IF i = 1 THEN "pinls" ELSE "idle"]
  /\ existingPins = [i \in Procs |-> <<>>]
  /\ publishOut = [i \in Procs |-> <<>>]
  /\ ipns = [i \in Procs |-> <<>>]
  /\ exitCode = [i \in Procs |-> -1]
  /\ daemon = [i \in Procs |-> IF i = 1 THEN "running" ELSE "none"]
  /\ warned = [i \in Procs |-> FALSE]
  /\ log = [i \in Procs |->
             IF i = 1
               THEN <<Entry("config", "Addresses.Gateway", TRUE),
                      Entry("config", "Addresses.API", TRUE),
                      Entry("key list", "", TRUE),
                      Entry("daemon", "", TRUE),
                      Entry("add", "", TRUE)>>
               ELSE <<>>]

\* lines 186-189 on whatever text the listing command prints; the entry
\* keeps the text
PinLsAny(i) ==
  /\ pc[i] = "pinls"
  /\ \E ok \in BOOLEAN :
     \E text \in ListingTexts(Word(hash[i])) :
       LET list == ExistingPins(RunOutput(text), hash[i])
       IN /\ Land(i, ok, "publish", IF ok THEN AfterPins(list) ELSE "publish",
                  [cmd |-> "pin ls", arg |-> "", ok |-> ok, out |-> text])
          /\ existingPins' = [existingPins EXCEPT ![i] = IF ok THEN list ELSE @]
  /\ UNCHANGED envVars
  /\ UNCHANGED <<hash, publishOut, ipns, daemon>>
  /\ UNCHANGED lastClean

ListNext == \E i \in Procs : PinLsAny(i) \/ PinRm(i)

ListSpec == ListInit /\ [][ListNext]_vars

\* A root is listed by a text when one of its lines begins with it.
Lists(text, root) ==
  \E p \in 1..Len(text) :
    /\ text[p] = root
    /\ p = 1 \/ text[p - 1] = "\n"

(* C18: whatever the listing command prints (the root R of this run's add   *)
(* once, several times or not at all, empty lines), no pin removal is       *)
(* issued for R, and every removal issued is for a root that the listing    *)
(* of this run lists and that differs from R.                               *)
C18_NeverUnpinsOwnRoot ==
  \A i \in Procs :
    \A n \in 1..Len(log[i]) :
      log[i][n].cmd = "pin rm" =>
        /\ log[i][n].arg # Word(hash[i])
        /\ log[i][n].arg \in StaleRoots
        /\ \E m \in 1..(n - 1) :
             /\ log[i][m].cmd = "pin ls" /\ log[i][m].ok
             /\ Lists(log[i][m].out, log[i][n].arg)

\* a listing with an empty line that lists R twice and a stale root, and
\* the removal of that stale root
C18_Witness ==
  \E m \in 1..Len(log[1]) :
    /\ log[1][m].cmd = "pin ls"
    /\ \E p, q \in 1..Len(log[1][m].out) :
         /\ p + 1 < q
         /\ log[1][m].out[p] = Word(hash[1])
         /\ log[1][m].out[q] = Word(hash[1])
    /\ \E p \in 2..Len(log[1][m].out) :
         log[1][m].out[p - 1] = "\n" /\ log[1][m].out[p] = "\n"
    /\ \E n \in (m + 1)..Len(log[1]) :
         log[1][n].cmd = "pin rm" /\ log[1][n].ok

(* C19: with one controller on the repository, whenever the name publish    *)
(* command is about to be issued or has been issued in a run, the pin       *)
(* listing of that run succeeded, no pin removal of that run failed, and    *)
(* the recursive pin set is exactly {R}: no stale root is pinned when the   *)
(* record is published.                                                     *)
C19_PublishOnlyWhenReconciled ==
  \A i \in Procs :
    (pc[i] = "publish" \/ Issued(i, "name publish")) =>
      /\ Succeeded(i, "pin ls")
      /\ ~Failed(i, "pin ls")
      /\ ~Failed(i, "pin rm")
      /\ pins = {Word(hash[i])}

\* publish issued in a run that had to remove both stale roots
C19_Witness ==
  /\ Issued(1, "name publish")
  /\ Removed(1) = StaleRoots
  /\ pins = {Word(hash[1])}

\* The commands of a run issued after its daemon was started
AfterDaemon(i) ==
  {n \in 1..Len(log[i]) :
     \E d \in 1..(n - 1) : log[i][d].cmd = "daemon"}

FailedAfterDaemon(i) ==
  {log[i][n].cmd : n \in {k \in AfterDaemon(i) : ~log[i][k].ok}}

(* C20: the controller issues the daemon stop only in a run in which every  *)
(* command after the daemon start succeeded; once a command (add, pin       *)
(* listing, pin removal, publish or key export) has failed after the daemon *)
(* start, the process has exited with a non-zero code, no daemon stop was   *)
(* issued and the daemon is still running.                                  *)
C20_DaemonStoppedOnlyOnSuccess ==
  \A i \in Procs :
    /\ (Issued(i, "kill") \/ daemon[i] = "killed") => FailedAfterDaemon(i) = {}
    /\ FailedAfterDaemon(i) # {} =>
         /\ FailedAfterDaemon(i) \subseteq
              {"add", "pin ls", "pin rm", "name publish", "key export"}
         /\ pc[i] = "exit"
         /\ exitCode[i] # 0 /\ exitCode[i] # -1
         /\ ~Issued(i, "kill")
         /\ daemon[i] = "running"

\* the last command of the run, the key export, failed
C20_Witness ==
  /\ FailedAfterDaemon(1) = {"key export"}
  /\ Succeeded(1, "name publish")
  /\ pc[1] = "exit" /\ daemon[1] = "running"

====
